---- MODULE Spec2Model ----
(***************************************************************************)
(* Model of AssetLoader (src/src/AssetLoader.class.js, the class that       *)
(* starts at line 67). Spec is download: the p-limit worker pool, the body *)
(* of each worker, the Promise.all join and the final summary.             *)
(* SpecResolve is the computation a worker makes from one reference before *)
(* its first I/O, SpecExtract is extractAssetPathsFromPayload, and         *)
(* SpecHook is the generate:done hook of the module function               *)
(* (src/unnamed/part_003): collect, then download, then the log write.     *)
(* Texts are sequences of one-character strings.                           *)
(***************************************************************************)
EXTENDS Integers, Sequences, FiniteSets, TLC

(* ---------------------------------------------------------------------- *)
(* Bounds of the model                                                     *)
(* ---------------------------------------------------------------------- *)
MaxAssets == 3

MaxConcurrency == 2

MaxBytes == 1

\* path segments of the references SpecResolve draws
MaxSegments == 2

\* pieces of the payload texts SpecExtract draws
MaxPieces == 5

\* entries of the payload directory SpecHook draws
MaxEntries == 2

\* calls of collect on one loader in SpecLoader
MaxCollects == 2

\* the calls of the module function one build makes
MaxModuleCalls == 2

(* ---------------------------------------------------------------------- *)
(* Program constants                                                       *)
(* ---------------------------------------------------------------------- *)
\* retry: 3 in the options of the ofetch call
RetryCount == 3

\* asset references the collector can hand over: two root-relative paths and
\* two absolute URLs
Refs == {"/assets/img/a.png", "/imager/x/b.jpg",
         "https://other.example/static/logo.svg",
         "https://other.example/assets/img/a.png"}

\* values of the logLevel option: silent, errors only, and the default
LogLevels == {-1, 0, 3}

\* what the transport would do for a request: the number of attempts that
\* fail before one succeeds (RetryCount + 1: none succeeds within the retry
\* budget) and the size of the body it would stream
Behaviours == [failures : {0, RetryCount, RetryCount + 1}, bytes : {MaxBytes}]

\* the two errors the read of assetDir ahead of its declaration can raise:
\* a ReferenceError for the const binding as written, a TypeError out of
\* path.join(undefined, ...) when the bundle was transpiled to var
PathErrors == {"ReferenceError: Cannot access 'assetDir' before initialization",
               "TypeError: The \"path\" argument must be of type string"}

NoReport == [total |-> -1, succeeded |-> -1, failed |-> -1, totalBytes |-> -1]

NoError == [name |-> "none", failed |-> -1, total |-> -1]

VARIABLES
    assetList,            \* this.assetList, the array built from the asset set
    concurrentDownloads,  \* this.concurrentDownloads
    silentFail,           \* this.silentFail
    logLevel,             \* this.logLevel
    transport,            \* what the network would answer for each asset
    pathError,            \* what the read of assetDir throws in this build
    mainPc,               \* position of the download() call
    localAssetList,       \* the assetList download took from this at its start
    queue,                \* p-limit queue: indexes of the workers not admitted
    activeCount,          \* p-limit activeCount
    wpc,                  \* position of each worker
    results,              \* values the worker promises resolved to
    failedAssets,         \* const failedAssets
    completedCount,       \* let completedCount
    totalBytesDownloaded, \* let totalBytesDownloaded
    report,               \* the counts download computes after the join
    thrown,               \* the error download rejected with
    logFile,              \* lines appended to publisher.log by this call
    effects,              \* fetches, directory creations and asset writes
    api,                  \* this.api, the configured origin host
    assetDestination,     \* this.assetDestination
    assetRef,             \* the asset one worker is called with
    resolved,             \* the locals of that worker when it leaves the try block
    payloadString,        \* the argument of extractAssetPathsFromPayload
    extractDone,          \* extractAssetPathsFromPayload has returned
    extractedPaths,       \* the array it returned
    hookPc,               \* position of the generate:done hook
    provideAssets,        \* this.provideAssets and what a call of it does
    payloadDir,           \* the directory tree under payloadDir
    enableDebugFile,      \* this.enableDebugFile
    debugFile,            \* the lines of debug.log
    filesRead,            \* the files read with readFileSync, in order
    collectStats,         \* the statistics collect logs at its end
    collectError,         \* the error collect rejected with
    listBefore,           \* this.assetList when the hook fired
    hookLog,              \* the log file the hook wrote after download
    host,                 \* publicRuntimeConfig.API
    assetLoader,          \* the module's assetLoader is set
    consolaWarnings,      \* what the module function wrote with consola.warn
    collectCalls,         \* the calls of collect made on the loader
    moduleEntries,        \* the calls of the module function the build makes
    handlers,             \* the generate:done handlers registered on this.nuxt
    handlersCalled,       \* the handlers the generate:done event has called
    loadersBuilt          \* the AssetLoader objects constructed in the process

\* the state of SpecResolve
resolveVars == <<api, assetDestination, assetRef, resolved>>

\* the state of SpecExtract
extractVars == <<payloadString, extractDone, extractedPaths>>

\* the state of the hook and of collect
hookVars == <<hookPc, provideAssets, payloadDir, enableDebugFile, debugFile,
              filesRead, collectStats, collectError, listBefore, hookLog,
              host, assetLoader, consolaWarnings, collectCalls, moduleEntries,
              handlers, handlersCalled, loadersBuilt>>

vars == <<assetList, concurrentDownloads, silentFail, logLevel, transport,
          pathError,
          mainPc, localAssetList, queue, activeCount, wpc, results, failedAssets,
          completedCount, totalBytesDownloaded, report, thrown, logFile,
          effects, resolveVars, extractVars, hookVars>>

config == <<assetList, concurrentDownloads, silentFail, logLevel, transport,
            pathError, resolveVars, extractVars, hookVars>>

Indexes == 1..Len(assetList)

\* arrays without repetition of at most n references (Array.from(assetSet))
UniqueLists(n) ==
    {s \in UNION {[1..k -> Refs] : k \in 0..n} :
        \A i, j \in DOMAIN s : i # j => s[i] # s[j]}

(* ---------------------------------------------------------------------- *)
(* Logging: setupLogging adds a reporter that appends every log object the *)
(* level lets through to the log file                                      *)
(* ---------------------------------------------------------------------- *)
\* the consola level of a log type: a logger of level n lets through the
\* types of level <= n
LevelOf(type) ==
    CASE type = "error" -> 0
      [] type = "warn" -> 1
      [] type = "info" -> 3
      [] type = "success" -> 3
      [] type = "debug" -> 4

Line(type, text, ref) == [type |-> type, text |-> text, ref |-> ref]

Emit(log, type, text, ref) ==
    IF LevelOf(type) <= logLevel THEN Append(log, Line(type, text, ref)) ELSE log

RECURSIVE EmitEach(_, _, _, _)
EmitEach(log, type, text, refs) ==
    IF refs = <<>> THEN log
    ELSE EmitEach(Emit(log, type, text, Head(refs)), type, text, Tail(refs))

(* ---------------------------------------------------------------------- *)
(* Texts                                                                   *)
(* ---------------------------------------------------------------------- *)
\* String.prototype.startsWith
StartsWith(s, p) == Len(s) >= Len(p) /\ SubSeq(s, 1, Len(p)) = p

\* the text from position i to its end
From(s, i) == SubSeq(s, i, Len(s))

\* the positions of a character in a text
PositionsOf(s, c) == {i \in 1..Len(s) : s[i] = c}

Min(S) == CHOOSE x \in S : \A y \in S : x <= y

\* String.prototype.split on a one-character separator
RECURSIVE Split(_, _)
Split(s, c) ==
    IF PositionsOf(s, c) = {} THEN <<s>>
    ELSE LET i == Min(PositionsOf(s, c))
         IN <<SubSeq(s, 1, i - 1)>> \o Split(From(s, i + 1), c)

\* Array.prototype.join with a one-character separator
RECURSIVE Join1(_, _)
Join1(parts, c) ==
    IF parts = <<>> THEN <<>>
    ELSE IF Len(parts) = 1 THEN parts[1]
    ELSE parts[1] \o <<c>> \o Join1(Tail(parts), c)

\* the array without its last element, as pop() leaves it
Front(parts) == SubSeq(parts, 1, Len(parts) - 1)

Http == <<"h", "t", "t", "p", ":", "/", "/">>

Https == <<"h", "t", "t", "p", "s", ":", "/", "/">>

(* ---------------------------------------------------------------------- *)
(* The computation of a worker from its reference (lines 328-340)          *)
(* ---------------------------------------------------------------------- *)
\* an absolute test that knows https only
IsAbsoluteHttpsOnly(a) == StartsWith(a, Https)

\* asset.startsWith('http://') || asset.startsWith('https://')
IsAbsoluteURL(a) == StartsWith(a, Http) \/ StartsWith(a, Https)

\* isAbsoluteURL ? asset : `${api}${asset}`
RequestURL(origin, a) == IF IsAbsoluteURL(a) THEN a ELSE origin \o a

\* asset.replace(/^https?:\/\/[^/]+\//, ''): the scheme, one or more
\* characters other than a slash, and the slash after them are removed; a
\* text the pattern does not match is left as it is
StripOrigin(a) ==
    LET k == IF StartsWith(a, Http) THEN Len(Http)
             ELSE IF StartsWith(a, Https) THEN Len(Https) ELSE 0
        slashes == {i \in PositionsOf(a, "/") : i > k}
    IN IF k = 0 \/ slashes = {} \/ Min(slashes) = k + 1 THEN a
       ELSE From(a, Min(slashes) + 1)

\* asset.replace(/^\//, '')
StripLeadingSlash(a) == IF StartsWith(a, <<"/">>) THEN Tail(a) ELSE a

\* const assetPathForFS = isAbsoluteURL ? ... : ...
AssetPathForFS(a) == IF IsAbsoluteURL(a) THEN StripOrigin(a) ELSE StripLeadingSlash(a)

NotResolved ==
    [ran |-> FALSE, requestURL |-> <<>>, assetPathForFS |-> <<>>,
     assetName |-> <<>>, assetPath |-> <<>>,
     hasFilePath |-> FALSE, assetFilePath |-> <<>>, threw |-> FALSE]

\* The locals of a worker when control leaves its try block: requestURL,
\* assetPathForFS, assetName and assetPath are assigned (lines 328-339); the
\* initialiser of assetFilePath (line 340) reads assetDir ahead of its
\* declaration and throws, so assetFilePath is never assigned.
ResolveLocals(origin, a) ==
    LET splitAssetArray == Split(AssetPathForFS(a), "/")
    IN [ran |-> TRUE,
        requestURL |-> RequestURL(origin, a),
        assetPathForFS |-> AssetPathForFS(a),
        assetName |-> splitAssetArray[Len(splitAssetArray)],
        assetPath |-> Join1(Front(splitAssetArray), "/"),
        hasFilePath |-> FALSE,
        assetFilePath |-> <<>>,
        threw |-> TRUE]

\* the origin of the documented end-to-end run
CdnOrigin == <<"h", "t", "t", "p", "s", ":", "/", "/", "c", "d", "n", ".", "e", "x", "a", "m", "p", "l", "e">>

\* the destination option as documented
Dist == <<"d", "i", "s", "t">>

\* the configured origins SpecResolve draws
Origins == {CdnOrigin, <<"h", "t", "t", "p", ":", "/", "/", "h">>}

\* what precedes the path of a reference: nothing (a root-relative path),
\* http and https origins, the configured origin, a scheme without a host,
\* a scheme the code does not look for, an upper-case scheme, and a
\* protocol-relative host
Prefixes == {<<>>, <<"h", "t", "t", "p", ":", "/", "/", "o">>, <<"h", "t", "t", "p", "s", ":", "/", "/", "o">>, CdnOrigin, <<"h", "t", "t", "p", "s", ":", "/", "/">>, <<"f", "t", "p", ":", "/", "/", "o">>, <<"H", "T", "T", "P", "S", ":", "/", "/", "o">>, <<"/", "/", "o">>}

Segments == {<<"a">>, <<"b", ".", "c">>}

\* the paths of at most n segments, each segment behind a slash
RECURSIVE PathsOf(_)
PathsOf(n) ==
    IF n = 0 THEN {<<>>}
    ELSE PathsOf(n - 1) \cup
         {p \o <<"/">> \o g : p \in {q \in PathsOf(n - 1) : Len(Split(q, "/")) = n},
                             g \in Segments}

ResolveRefs == {pre \o p : pre \in Prefixes, p \in PathsOf(MaxSegments) \cup {<<"/">>}}

\* no worker has been called
ResolveIdle ==
    /\ api = CdnOrigin
    /\ assetDestination = Dist
    /\ assetRef = <<>>
    /\ resolved = NotResolved

(* ---------------------------------------------------------------------- *)
(* extractAssetPathsFromPayload (lines 257-265)                            *)
(* ---------------------------------------------------------------------- *)
Quote == <<"\"">>

Assets == <<"/", "a", "s", "s", "e", "t", "s", "/">>

Imager == <<"/", "i", "m", "a", "g", "e", "r", "/">>

\* String.prototype.replaceAll of a one-character text by the empty text
RemoveAll(s, c) == SelectSeq(s, LAMBDA x : x # c)

\* /\/(?:assets|imager)\/[^"]+/ matches at position p: one of the two words
\* between slashes, then at least one character that is not a double quote
MatchesAt(t, p) ==
    /\ StartsWith(From(t, p), Assets) \/ StartsWith(From(t, p), Imager)
    /\ p + Len(Assets) <= Len(t)
    /\ t[p + Len(Assets)] # "\""

\* the last position of the match that begins at p: [^"]+ is greedy, it
\* runs to the character before the next double quote or to the end
MatchEnd(t, p) ==
    LET quotes == {q \in PositionsOf(t, "\"") : q > p}
    IN IF quotes = {} THEN Len(t) ELSE Min(quotes) - 1

\* payloadString.matchAll(assetPathRegex) from position p: the leftmost
\* match, then the matches after its end
RECURSIVE MatchAll(_, _)
MatchAll(t, p) ==
    IF p > Len(t) THEN <<>>
    ELSE IF MatchesAt(t, p)
         THEN <<SubSeq(t, p, MatchEnd(t, p))>> \o MatchAll(t, MatchEnd(t, p) + 1)
         ELSE MatchAll(t, p + 1)

\* a map that removes the quotes only
CleanPathKeepCommas(match) == RemoveAll(match, "\"")

\* match[0].replaceAll('"', '').replaceAll(',', '')
CleanPath(match) == RemoveAll(RemoveAll(match, "\""), ",")

\* extractAssetPathsFromPayload(payloadString)
ExtractAssetPathsFromPayload(t) ==
    LET matches == MatchAll(t, 1)
    IN [k \in DOMAIN matches |-> CleanPath(matches[k])]

\* the pieces payload texts are put together from: a double quote, the two
\* words, a word that misses its last letters, a path character, a comma,
\* and a path character with the quote that ends a string
Pieces == {Quote, Assets, Imager, <<"/", "a", "s", "s", "e", "t">>, <<"x">>, <<",">>, <<"y", "\"">>}

\* the texts of at most n pieces
RECURSIVE TextsOf(_)
TextsOf(n) ==
    IF n = 0 THEN {<<>>}
    ELSE {<<>>} \cup {piece \o t : piece \in Pieces, t \in TextsOf(n - 1)}

\* extractAssetPathsFromPayload has not been called
ExtractIdle ==
    /\ payloadString = <<>>
    /\ extractDone = FALSE
    /\ extractedPaths = <<>>

(* ---------------------------------------------------------------------- *)
(* collect (lines 149-249) and processPayloadsStreaming (lines 273-297)    *)
(* ---------------------------------------------------------------------- *)
\* payloadFileName = 'payload.js'
PayloadFileName == <<"p", "a", "y", "l", "o", "a", "d", ".", "j", "s">>

\* String.prototype.includes
Includes(s, p) == \E k \in 1..Len(s) : StartsWith(From(s, k), p)

\* String.prototype.endsWith
EndsWith(s, p) == Len(s) >= Len(p) /\ SubSeq(s, Len(s) - Len(p) + 1, Len(s)) = p

\* the six characters of the escape: backslash, u, 0, 0, 2, F
EscapedSlash == <<"\\", "u", "0", "0", "2", "F">>

\* payloadJsonRaw.replaceAll('\\u002F', '/')
RECURSIVE UnescapeSlashes(_)
UnescapeSlashes(t) ==
    IF t = <<>> THEN <<>>
    ELSE IF StartsWith(t, EscapedSlash)
         THEN <<"/">> \o UnescapeSlashes(From(t, Len(EscapedSlash) + 1))
         ELSE <<t[1]>> \o UnescapeSlashes(Tail(t))

\* a set that starts from the list of the call before
SetOfList == assetList

\* const assetSet = new Set()
NewSet == <<>>

\* an add that does not look for an equal member
SetAddAlways(set, x) == Append(set, x)

\* Set.prototype.add on a set kept in insertion order
SetAdd(set, x) == IF \E k \in DOMAIN set : set[k] = x THEN set ELSE Append(set, x)

RECURSIVE SetAddAll(_, _)
SetAddAll(set, xs) ==
    IF xs = <<>> THEN set ELSE SetAddAll(SetAdd(set, Head(xs)), Tail(xs))

\* a file of the tree: readFileSync throws on it when ok is FALSE
File(name, content, ok) ==
    [kind |-> "file", name |-> name, content |-> content, entries |-> <<>>, ok |-> ok]

\* a directory of the tree: readdirSync throws on it when ok is FALSE
Dir(name, entries, ok) ==
    [kind |-> "dir", name |-> name, content |-> <<>>, entries |-> entries, ok |-> ok]

\* an append that does not look at the flag
DebugAlways(lines, tag) == Append(lines, tag)

\* fs.appendFileSync(this.debugFilePath, ...) under if (this.enableDebugFile)
Debug(lines, tag) == IF enableDebugFile THEN Append(lines, tag) ELSE lines

RECURSIVE DebugEach(_, _, _)
DebugEach(lines, tag, xs) ==
    IF xs = <<>> THEN lines ELSE DebugEach(Debug(lines, tag), tag, Tail(xs))

\* the locals of collect a walk works on
WalkState(set, total, log, debug) ==
    [failed |-> FALSE, assetSet |-> set, totalBeforeDedup |-> total,
     filesProcessed |-> 0, reads |-> <<>>, log |-> log, debug |-> debug]

\* a walk that goes on past what it cannot read
ReadNeverThrows(entry) == FALSE

\* readdirSync of a directory, readFileSync of a file: throws
ReadThrows(entry) == ~entry.ok

\* the callback collect passes to processPayloadsStreaming (lines 199-231)
PayloadCallback(w, payloadContent, filePath) ==
    LET n == w.filesProcessed + 1
        found == ExtractAssetPathsFromPayload(payloadContent)
        set == SetAddAll(w.assetSet, found)
        l1 == Emit(w.log, "debug", "Processing payload file", filePath)
        d1 == Debug(w.debug, "Processing file")
        d2 == DebugEach(d1, "asset", found)
        d3 == Debug(d2, "File processed")
    IN [w EXCEPT !.filesProcessed = n,
                 !.totalBeforeDedup = w.totalBeforeDedup + Len(found),
                 !.assetSet = set,
                 !.debug = d3,
                 !.log = IF n % 10 = 0
                         THEN Emit(l1, "info", "Processed payload files", "")
                         ELSE l1]

\* processPayloadsStreaming(dir, callback): the entries of a directory in
\* the order of readdirSync; a directory is walked at once, a file whose
\* name ends with payloadFileName is read, unescaped and given to the
\* callback, any other file is skipped; the first throw ends the walk
RECURSIVE WalkEntries(_, _, _), WalkDir(_, _, _)
WalkEntries(entries, path, w) ==
    IF w.failed \/ entries = <<>> THEN w
    ELSE LET entry == Head(entries)
             filePath == path \o <<"/">> \o entry.name
             after ==
                 IF entry.kind = "dir" THEN WalkDir(entry, filePath, w)
                 ELSE IF ~EndsWith(entry.name, PayloadFileName) THEN w
                 ELSE IF ReadThrows(entry) THEN [w EXCEPT !.failed = TRUE]
                 ELSE PayloadCallback([w EXCEPT !.reads = Append(w.reads, filePath)],
                                      UnescapeSlashes(entry.content), filePath)
         IN WalkEntries(Tail(entries), path, after)

WalkDir(dir, path, w) ==
    IF ReadThrows(dir) THEN [w EXCEPT !.failed = TRUE]
    ELSE WalkEntries(dir.entries, path, w)

\* a provider entry: a string, or a value of another type
Entry(isString, value) == [isString |-> isString, value |-> value]

\* a test that lets every entry through
IsAnything(e) == TRUE

\* typeof asset === 'string'
IsString(e) == e.isString

\* a test that takes any result for an array
IsArrayAlways(p) == TRUE

\* Array.isArray(providedAssets)
IsArray(p) == p.result = "array"

\* providedAssets.forEach (lines 177-186) on the locals of collect
RECURSIVE AddProvided(_, _)
AddProvided(w, entries) ==
    IF entries = <<>> THEN w
    ELSE LET e == Head(entries)
             next == IF ~IsString(e)
                     THEN [w EXCEPT !.log = Emit(w.log, "warn",
                                                "Skipping invalid asset URL", e.value)]
                     ELSE [w EXCEPT !.assetSet = SetAdd(w.assetSet, e.value),
                                    !.debug = Debug(w.debug, "Collected provided asset")]
         IN AddProvided(next, Tail(entries))

NoStats == [totalBeforeDedup |-> -1, unique |-> -1, duplicatesRemoved |-> -1,
            filesProcessed |-> -1]

NoProvider == [kind |-> "none", result |-> "array", entries |-> <<>>]

\* the texts of the payload files
ContentTwo == <<"\"", "/", "a", "s", "s", "e", "t", "s", "/", "x", "\"", ",", "\"", "/", "i", "m", "a", "g", "e", "r", "/", "y", "\"">>

ContentOne == <<"\"", "/", "a", "s", "s", "e", "t", "s", "/", "x", "\"">>

ContentEscaped == <<"\"", "\\", "u", "0", "0", "2", "F", "a", "s", "s", "e", "t", "s", "\\", "u", "0", "0", "2", "F", "z", "\"">>

\* the files a directory can hold
FilePool ==
    {File(PayloadFileName, ContentTwo, TRUE),
     File(<<"x", ".", "p", "a", "y", "l", "o", "a", "d", ".", "j", "s">>, ContentEscaped, TRUE),
     File(<<"p", "a", "y", "l", "o", "a", "d", ".", "j", "s", "o", "n">>, ContentOne, TRUE),
     File(<<"x", ".", "p", "a", "y", "l", "o", "a", "d", ".", "j", "s">>, ContentOne, FALSE),
     File(<<"p", "a", "y", "l", "o", "a", "d", ".", "j", "s", "o", "n">>, ContentOne, FALSE)}

\* the subdirectories the payload directory can hold: readable ones with at
\* most one file, one of them named like a payload file, and an unreadable one
DirPool ==
    {Dir(<<"a">>, fs, TRUE) : fs \in {<<>>} \cup {<<f>> : f \in FilePool}}
    \cup {Dir(<<"d", ".", "p", "a", "y", "l", "o", "a", "d", ".", "j", "s">>, <<File(PayloadFileName, ContentOne, TRUE)>>, TRUE),
          Dir(<<"b">>, <<>>, FALSE)}

\* the payload directories of at most n entries with distinct names, and
\* the payload directory that cannot be read
TreesOf(n) ==
    {Dir(<<>>, es, TRUE) :
        es \in {s \in UNION {[1..k -> FilePool \cup DirPool] : k \in 0..n} :
                  \A i, j \in DOMAIN s : i # j => s[i].name # s[j].name}}
    \cup {Dir(<<>>, <<>>, FALSE)}

\* the values a provider hands over: two references and a number
ProvidedOne == Entry(TRUE, <<"/", "a", "s", "s", "e", "t", "s", "/", "x">>)

ProvidedAbsolute == Entry(TRUE, <<"h", "t", "t", "p", "s", ":", "/", "/", "o", "/", "p">>)

ProvidedNumber == Entry(FALSE, <<"4", "2">>)

\* this.provideAssets: no function, or a synchronous or asynchronous function
\* that throws (rejects), returns something that is no array, or returns
\* an array
Providers ==
    {NoProvider}
    \cup [kind : {"sync", "async"}, result : {"throws", "other"}, entries : {<<>>}]
    \cup [kind : {"sync", "async"}, result : {"array"},
          entries : {<<>>, <<ProvidedOne, ProvidedNumber, ProvidedAbsolute>>,
                     <<ProvidedOne, ProvidedOne>>}]

\* what this.assetList holds when the hook fires: nothing after the
\* constructor, the list of an earlier run after that
EarlierLists == {<<>>, <<<<"/", "a", "s", "s", "e", "t", "s", "/", "o", "l", "d">>>>}

\* publicRuntimeConfig.API: a string, or nothing
Host(defined, text) == [defined |-> defined, text |-> text]

\* the configurations of the host: none, the empty string, an origin
Hosts == {Host(FALSE, <<>>), Host(TRUE, <<>>), Host(TRUE, CdnOrigin)}

\* the module function has not been called
HookIdle ==
    /\ hookPc = "off"
    /\ host = Host(TRUE, CdnOrigin)
    /\ assetLoader = FALSE
    /\ consolaWarnings = <<>>
    /\ collectCalls = 0
    /\ moduleEntries = 1
    /\ handlers = 0
    /\ handlersCalled = 0
    /\ loadersBuilt = 0
    /\ provideAssets = NoProvider
    /\ payloadDir = Dir(<<>>, <<>>, TRUE)
    /\ enableDebugFile = FALSE
    /\ debugFile = <<>>
    /\ filesRead = <<>>
    /\ collectStats = NoStats
    /\ collectError = "none"
    /\ listBefore = <<>>
    /\ hookLog = "none"

Init ==
    /\ assetList \in UniqueLists(MaxAssets)
    /\ concurrentDownloads \in 1..MaxConcurrency
    /\ silentFail \in BOOLEAN
    /\ logLevel \in LogLevels
    /\ transport \in [1..Len(assetList) -> Behaviours]
    /\ pathError \in PathErrors
    /\ mainPc = "idle"
    /\ localAssetList = <<>>
    /\ queue = <<>>
    /\ activeCount = 0
    /\ wpc = [i \in 1..Len(assetList) |-> "unborn"]
    /\ results = <<>>
    /\ failedAssets = <<>>
    /\ completedCount = 0
    /\ totalBytesDownloaded = 0
    /\ report = NoReport
    /\ thrown = NoError
    /\ logFile = <<>>
    /\ effects = <<>>
    /\ ResolveIdle
    /\ ExtractIdle
    /\ HookIdle

\* the guard without its return: the call goes on to the pool and the join
DownloadEmptyFallsThrough ==
    /\ mainPc = "idle"
    /\ Len(assetList) = 0
    /\ logFile' = Emit(Emit(logFile, "warn", "No assets to download", ""),
                       "info", "Starting download", "")
    /\ mainPc' = "awaiting"
    /\ UNCHANGED <<config, localAssetList, queue, activeCount, wpc, results,
                   failedAssets,
                   completedCount, totalBytesDownloaded, report, thrown, effects>>

\* if (this.assetList.length === 0) { warn; return }
DownloadEmpty ==
    /\ mainPc = "idle"
    /\ Len(assetList) = 0
    /\ logFile' = Emit(logFile, "warn", "No assets to download", "")
    /\ mainPc' = "returned"
    /\ UNCHANGED <<config, localAssetList, queue, activeCount, wpc, results,
                   failedAssets,
                   completedCount, totalBytesDownloaded, report, thrown, effects>>

\* a map that hands the workers to the pool last asset first
EnqueueAllReversed(list) == [i \in DOMAIN list |-> Len(list) + 1 - i]

\* assetList.map(asset => limit(...)): the workers enter the queue of the
\* pool in the order of the list
EnqueueAll(list) == [i \in DOMAIN list |-> i]

\* const { assetList, ... } = this, then
\* const downloadPromises = assetList.map(asset => limit(...)): every worker is
\* queued in list order; then the synchronous part of download runs up to the
\* await of Promise.all
DownloadBegin ==
    /\ mainPc = "idle"
    /\ Len(assetList) > 0
    /\ localAssetList' = assetList
    /\ queue' = EnqueueAll(assetList)
    /\ wpc' = [i \in Indexes |-> "queued"]
    /\ logFile' = Emit(logFile, "info", "Starting download", "")
    /\ mainPc' = "awaiting"
    /\ UNCHANGED <<config, activeCount, results, failedAssets, completedCount,
                   totalBytesDownloaded, report, thrown, effects>>

\* a pool that admits without looking at activeCount
HasSlotUnbounded == TRUE

\* p-limit admits a queued function only while activeCount < concurrency
HasSlot == activeCount < concurrentDownloads

\* the value a worker returns from its catch block
FailureResult(asset, err) ==
    [success |-> FALSE, asset |-> asset, size |-> -1, error |-> err]

\* the value a worker returns at the end of its try block
SuccessResult(asset, size) ==
    [success |-> TRUE, asset |-> asset, size |-> size, error |-> ""]

\* a dequeue that drops the waiting workers with the one it takes
DequeueDropRest(q) == <<>>

\* queue.dequeue() of p-limit: the head leaves the queue, the rest waits
Dequeue(q) == Tail(q)

\* a catch block without the push
PushNothing(list, asset) == list

\* failedAssets.push(asset) in the catch block of the worker
PushFailed(list, asset) == Append(list, asset)

\* a worker that looks its asset up in this.assetList when it runs
WorkerAssetOfThis(i) == IF i \in DOMAIN assetList THEN assetList[i] ELSE <<>>

\* the asset the closure of worker i holds: the element of the list that
\* download took at its start
WorkerAsset(i) == localAssetList[i]

\* The body of the worker of asset i, run when p-limit calls it. The try block
\* computes the request URL and the path, then reads assetDir (line 340)
\* ahead of its declaration (line 343): the read throws, so control leaves
\* the try block before mkdirSync, ofetch and pipeline, and the catch block
\* logs, pushes the asset to failedAssets and returns a failure. The body
\* has no await before the throw: it runs to its return in one step.
RunWorker(i) ==
    /\ wpc[i] = "queued"
    /\ logFile' = Emit(logFile, "error", "Failed to download asset", WorkerAsset(i))
    /\ failedAssets' = PushFailed(failedAssets, WorkerAsset(i))
    /\ results' = Append(results, FailureResult(WorkerAsset(i), pathError))
    /\ UNCHANGED <<completedCount, totalBytesDownloaded, effects>>

\* p-limit enqueue: after a microtask, the head of the queue is started if a
\* slot is free
Admit ==
    /\ mainPc # "idle"
    /\ queue # <<>>
    /\ HasSlot
    /\ RunWorker(Head(queue))
    /\ wpc' = [wpc EXCEPT ![Head(queue)] = "active"]
    /\ queue' = Dequeue(queue)
    /\ activeCount' = activeCount + 1
    /\ UNCHANGED <<config, localAssetList, mainPc, report, thrown>>

\* a next() that keeps the slot
KeepSlot(count) == count

\* activeCount-- in next() of p-limit
GiveBackSlot(count) == count - 1

\* p-limit next() with an empty queue: the worker's promise has settled and
\* its slot is given back
ReleaseSlot(i) ==
    /\ wpc[i] = "active"
    /\ queue = <<>>
    /\ wpc' = [wpc EXCEPT ![i] = "released"]
    /\ activeCount' = GiveBackSlot(activeCount)
    /\ UNCHANGED <<config, localAssetList, mainPc, queue, results, failedAssets, completedCount,
                   totalBytesDownloaded, report, thrown, logFile, effects>>

\* p-limit next() with a non-empty queue: the slot is given back and the head
\* of the queue is started at once (activeCount-- then activeCount++)
HandOver(i) ==
    /\ wpc[i] = "active"
    /\ queue # <<>>
    /\ RunWorker(Head(queue))
    /\ wpc' = [wpc EXCEPT ![i] = "released", ![Head(queue)] = "active"]
    /\ queue' = Dequeue(queue)
    /\ activeCount' = GiveBackSlot(activeCount) + 1
    /\ UNCHANGED <<config, localAssetList, mainPc, report, thrown>>

\* a join that resolves with the first worker promise
FirstSettled == Len(results) >= 1

\* Promise.all(downloadPromises) resolves once every worker promise has
\* resolved (no worker promise rejects: the catch block returns)
AllSettled == Len(results) = Len(localAssetList)

\* a count that forgets the filter
CountAll(rs) == Len(rs)

\* results.filter(r => r.success).length
CountSuccess(rs) == Cardinality({k \in DOMAIN rs : rs[k].success})

\* results.filter(r => !r.success).length
CountFailed(rs) == Cardinality({k \in DOMAIN rs : ~rs[k].success})

\* a raise that does not look at silentFail
RaisesOnAnyFailure(failedDownloads) == failedDownloads > 0

\* a raise that never happens
RaisesNever(failedDownloads) == FALSE

\* if (!silentFail) throw ..., inside if (failedDownloads > 0); the catch
\* block around it rethrows under the same condition
Raises(failedDownloads) == failedDownloads > 0 /\ ~silentFail

\* new Error(`Some downloads failed (${failedDownloads} of ${totalAssetCount})`)
DownloadError(failedDownloads, totalAssetCount) ==
    [name |-> "Error", failed |-> failedDownloads, total |-> totalAssetCount]

\* the lines the summary appends to the log
SummaryLog(log, failedDownloads) ==
    IF failedDownloads > 0
    THEN LET l1 == Emit(log, "error", "Completed with errors", "")
             l2 == Emit(l1, "error", "Total data downloaded", "")
             l3 == Emit(l2, "error", "Failed assets", "")
             l4 == EmitEach(l3, "error", "failed asset", failedAssets)
         IN IF Raises(failedDownloads)
            THEN Emit(l4, "error", "Download process error", "")
            ELSE l4
    ELSE Emit(log, "success", "Successfully downloaded all assets", "")

\* the code after await Promise.all: count, log the summary, throw or return
Join ==
    /\ mainPc = "awaiting"
    /\ AllSettled
    /\ LET successfulDownloads == CountSuccess(results)
           failedDownloads == CountFailed(results)
       IN /\ report' = [total |-> Len(localAssetList),
                        succeeded |-> successfulDownloads,
                        failed |-> failedDownloads,
                        totalBytes |-> totalBytesDownloaded]
          /\ logFile' = SummaryLog(logFile, failedDownloads)
          /\ IF Raises(failedDownloads)
             THEN /\ thrown' = DownloadError(failedDownloads, Len(localAssetList))
                  /\ mainPc' = "raised"
             ELSE /\ thrown' = thrown
                  /\ mainPc' = "returned"
    /\ UNCHANGED <<config, localAssetList, queue, activeCount, wpc, results,
                   failedAssets,
                   completedCount, totalBytesDownloaded, effects>>

Next ==
    \/ DownloadEmpty
    \/ DownloadBegin
    \/ Admit
    \/ \E i \in DOMAIN wpc : ReleaseSlot(i)
    \/ \E i \in DOMAIN wpc : HandOver(i)
    \/ Join

Spec == Init /\ [][Next]_vars

\* download called on a loader of the default log level
InitFair ==
    /\ Init
    /\ logLevel = 3
    /\ pathError = "ReferenceError: Cannot access 'assetDir' before initialization"

\* the event loop runs every pending microtask and continuation: a step of
\* download that stays possible is taken
SpecFair == InitFair /\ [][Next]_vars /\ WF_vars(Next)

(* ---------------------------------------------------------------------- *)
(* SpecResolve: one worker body applied to one reference                   *)
(* ---------------------------------------------------------------------- *)
\* download is not running
DownloadIdle ==
    /\ assetList = <<>>
    /\ concurrentDownloads = 1
    /\ silentFail = TRUE
    /\ logLevel = 3
    /\ transport = <<>>
    /\ pathError \in PathErrors
    /\ mainPc = "idle"
    /\ localAssetList = <<>>
    /\ queue = <<>>
    /\ activeCount = 0
    /\ wpc = <<>>
    /\ results = <<>>
    /\ failedAssets = <<>>
    /\ completedCount = 0
    /\ totalBytesDownloaded = 0
    /\ report = NoReport
    /\ thrown = NoError
    /\ logFile = <<>>
    /\ effects = <<>>

downloadVars == <<assetList, concurrentDownloads, silentFail, logLevel, transport,
                  pathError, mainPc, localAssetList, queue, activeCount, wpc, results,
                  failedAssets, completedCount, totalBytesDownloaded, report,
                  thrown, logFile, effects>>

InitResolve ==
    /\ DownloadIdle
    /\ api \in Origins
    /\ assetDestination = Dist
    /\ assetRef \in ResolveRefs
    /\ resolved = NotResolved
    /\ ExtractIdle
    /\ HookIdle

\* the try block of the worker of one asset, up to the throw of line 340
ResolvePaths ==
    /\ ~resolved.ran
    /\ resolved' = ResolveLocals(api, assetRef)
    /\ UNCHANGED <<downloadVars, api, assetDestination, assetRef, extractVars, hookVars>>

NextResolve == ResolvePaths

SpecResolve == InitResolve /\ [][NextResolve]_vars

(* ---------------------------------------------------------------------- *)
(* SpecExtract: extractAssetPathsFromPayload applied to one text           *)
(* ---------------------------------------------------------------------- *)
InitExtract ==
    /\ DownloadIdle
    /\ pathError = "ReferenceError: Cannot access 'assetDir' before initialization"
    /\ ResolveIdle
    /\ payloadString \in TextsOf(MaxPieces)
    /\ extractDone = FALSE
    /\ extractedPaths = <<>>
    /\ HookIdle

\* one call of extractAssetPathsFromPayload
ExtractPaths ==
    /\ ~extractDone
    /\ extractedPaths' = ExtractAssetPathsFromPayload(payloadString)
    /\ extractDone' = TRUE
    /\ UNCHANGED <<downloadVars, resolveVars, payloadString, hookVars>>

NextExtract == ExtractPaths

SpecExtract == InitExtract /\ [][NextExtract]_vars

(* ---------------------------------------------------------------------- *)
(* SpecHook: the module function and its generate:done hook: collect,      *)
(* download, log write                                                     *)
(* ---------------------------------------------------------------------- *)
\* the module function is called in a build whose earlier call, if any, left
\* its loader and that loader's list in the module's assetLoader
InitHook ==
    /\ assetList \in EarlierLists
    /\ concurrentDownloads = 1
    /\ silentFail \in BOOLEAN
    /\ logLevel = 3
    /\ transport = <<>>
    /\ pathError = "ReferenceError: Cannot access 'assetDir' before initialization"
    /\ mainPc = "idle"
    /\ localAssetList = <<>>
    /\ queue = <<>>
    /\ activeCount = 0
    /\ wpc = [i \in 1..Len(assetList) |-> "unborn"]
    /\ results = <<>>
    /\ failedAssets = <<>>
    /\ completedCount = 0
    /\ totalBytesDownloaded = 0
    /\ report = NoReport
    /\ thrown = NoError
    /\ logFile = <<>>
    /\ effects = <<>>
    /\ ResolveIdle
    /\ ExtractIdle
    /\ hookPc = "off"
    /\ host \in Hosts
    /\ assetLoader = (assetList # <<>>)
    /\ consolaWarnings = <<>>
    /\ collectCalls = 0
    /\ moduleEntries = 1
    /\ handlers = 0
    /\ handlersCalled = 0
    /\ loadersBuilt = 0
    /\ provideAssets \in Providers
    /\ payloadDir = Dir(<<>>, <<>>, TRUE)
    /\ enableDebugFile \in BOOLEAN
    /\ debugFile = <<>>
    /\ filesRead = <<>>
    /\ collectStats = NoStats
    /\ collectError = "none"
    /\ listBefore = assetList
    /\ hookLog = "none"

\* !host?.length
HostMissing(h) == ~h.defined \/ Len(h.text) = 0

\* the locals of a download call and the log file
downloadState == <<mainPc, localAssetList, queue, activeCount, wpc, results,
                   failedAssets, completedCount, totalBytesDownloaded, report,
                   thrown, logFile>>

\* what the module function leaves alone
moduleFrame == <<concurrentDownloads, silentFail, logLevel, transport, pathError,
                 mainPc, localAssetList, queue, activeCount, wpc, results,
                 failedAssets, completedCount, totalBytesDownloaded, report,
                 thrown, logFile, assetDestination, assetRef, resolved, extractVars,
                 provideAssets, enableDebugFile, debugFile, filesRead,
                 collectStats, collectError, listBefore, hookLog, host, collectCalls,
                 moduleEntries, handlersCalled>>

\* the module function with no host (part_003 lines 30-34): consola.warn and
\* return. The file imports no consola: the name is the global that
\* consola 2 defines when it is loaded; in a process without that global
\* the read of the name throws a ReferenceError and the function rejects.
ModuleWithoutHost ==
    /\ hookPc = "off"
    /\ HostMissing(host)
    /\ \E consolaDefined \in BOOLEAN :
          IF consolaDefined
          THEN /\ consolaWarnings' = Append(consolaWarnings, "No API configured")
               /\ hookPc' = "skipped"
          ELSE /\ consolaWarnings' = consolaWarnings
               /\ hookPc' = "moduleFailed"
    /\ UNCHANGED <<moduleFrame, payloadDir, assetList, api, assetLoader, effects,
                   handlers, loadersBuilt>>

\* the module function with a host (part_003 lines 36-53), called once for
\* each entry the build has for the module: the loader is built unless the
\* module has one (constructor, lines 96-113, and the mkdirSync of
\* setupLogging, line 141); then, inside the guard or not, this.nuxt.hook
\* registers one more handler of generate:done
ModuleRegistersHook ==
    /\ hookPc \in {"off", "registered"}
    /\ handlers < moduleEntries
    /\ ~HostMissing(host)
    /\ IF ~assetLoader
       THEN /\ assetLoader' = TRUE
            /\ loadersBuilt' = loadersBuilt + 1
            /\ api' = host.text
            /\ assetList' = <<>>
            /\ effects' = Append(effects, [op |-> "mkdir", path |-> "dist"])
       ELSE UNCHANGED <<assetLoader, loadersBuilt, api, assetList, effects>>
    /\ handlers' = handlers + 1
    /\ hookPc' = "registered"
    /\ UNCHANGED <<moduleFrame, payloadDir, consolaWarnings>>

\* the modules are loaded; nuxt generate writes the payload files, then
\* fires generate:done: the first handler registered (part_003 line 40) is
\* called with the tree as generation left it
NuxtGenerates ==
    /\ hookPc = "registered"
    /\ handlers = moduleEntries
    /\ payloadDir' \in TreesOf(MaxEntries)
    /\ hookPc' = "fired"
    /\ handlersCalled' = 1
    /\ collectCalls' = collectCalls + 1
    /\ UNCHANGED <<concurrentDownloads, silentFail, logLevel, transport, pathError,
                   downloadState, assetDestination, assetRef, resolved, extractVars,
                   provideAssets, enableDebugFile, debugFile, filesRead,
                   collectStats, collectError, listBefore, hookLog, host,
                   assetList, api, assetLoader, effects, consolaWarnings,
                   moduleEntries, handlers, loadersBuilt>>

\* what download and the configuration hold while collect runs
collectFrame == <<concurrentDownloads, silentFail, logLevel, transport, pathError,
                  mainPc, localAssetList, queue, activeCount, results, failedAssets,
                  completedCount, totalBytesDownloaded, report, thrown, effects,
                  resolveVars, extractVars, provideAssets, payloadDir,
                  enableDebugFile, listBefore, hookLog, host, assetLoader,
                  consolaWarnings, collectCalls, moduleEntries, handlers,
                  handlersCalled, loadersBuilt>>

\* the first lines of collect (lines 150-156): the log line, and with
\* enableDebugFile the second log line and the debug file written anew
CollectEntryLog ==
    LET l0 == Emit(logFile, "info", "Log file location", "")
    IN IF enableDebugFile THEN Emit(l0, "info", "Debug URL collection file", "") ELSE l0

CollectEntryDebug ==
    IF enableDebugFile THEN <<"Starting URL collection">> ELSE debugFile

\* collect rejects: this.assetList is not assigned, and the hook, which
\* awaits collect, rejects with it before it calls download
CollectRejects(log, debug, reads, error) ==
    /\ logFile' = log
    /\ debugFile' = debug
    /\ filesRead' = reads
    /\ collectError' = error
    /\ hookPc' = "collectFailed"
    /\ UNCHANGED <<assetList, wpc, collectStats, collectFrame>>

\* the catch block of the provider part (lines 190-193): log, rethrow
ProviderRejects(log, debug, error) ==
    CollectRejects(Emit(log, "error", "Error collecting provided assets", ""),
                   debug, <<>>, error)

\* collect from the walk of the payload directory to its end (lines 196-248);
\* before download is called no worker of the new list exists, after that
\* the workers are those of the list download took
CollectScan(w0) ==
    LET w == WalkDir(payloadDir, Dist, w0)
    IN IF w.failed
       THEN CollectRejects(w.log, w.debug, w.reads, "read error")
       ELSE LET duplicatesRemoved == w.totalBeforeDedup - Len(w.assetSet)
            IN /\ assetList' = w.assetSet
               /\ wpc' = IF mainPc = "idle"
                         THEN [i \in DOMAIN w.assetSet |-> "unborn"]
                         ELSE wpc
               /\ collectStats' = [totalBeforeDedup |-> w.totalBeforeDedup,
                                   unique |-> Len(w.assetSet),
                                   duplicatesRemoved |-> duplicatesRemoved,
                                   filesProcessed |-> w.filesProcessed]
               /\ debugFile' = DebugEach(w.debug, "collection complete", <<1, 2, 3, 4, 5, 6>>)
               /\ logFile' = Emit(w.log, "info", "Found unique assets", "")
               /\ filesRead' = w.reads
               /\ hookPc' = "collected"
               /\ UNCHANGED <<collectError, collectFrame>>

\* the hook fires and calls collect, this.provideAssets is no function:
\* collect has no await and runs to its end
HookCollectWithoutProvider ==
    /\ hookPc = "fired"
    /\ provideAssets.kind = "none"
    /\ CollectScan(WalkState(NewSet, 0, CollectEntryLog, CollectEntryDebug))

\* the hook fires and calls collect, this.provideAssets is a function:
\* collect calls it; a synchronous throw is caught at once, anything else
\* is awaited
HookCollectCallsProvider ==
    /\ hookPc = "fired"
    /\ provideAssets.kind # "none"
    /\ LET log == Emit(CollectEntryLog, "info", "Collecting provided assets", "")
       IN IF provideAssets.kind = "sync" /\ provideAssets.result = "throws"
          THEN ProviderRejects(log, CollectEntryDebug,
                               "Failed to execute provideAssets function")
          ELSE /\ logFile' = log
               /\ debugFile' = CollectEntryDebug
               /\ hookPc' = "awaitingProvider"
               /\ UNCHANGED <<assetList, wpc, filesRead, collectStats, collectError,
                              collectFrame>>

\* the await of the provider's result is over (lines 170-189), then the walk
HookCollectResumes ==
    /\ hookPc = "awaitingProvider"
    /\ IF provideAssets.result = "throws"
       THEN ProviderRejects(logFile, debugFile,
                            "Failed to execute provideAssets function")
       ELSE IF ~IsArray(provideAssets)
       THEN ProviderRejects(logFile, debugFile,
                            "provideAssets function must return an array of strings")
       ELSE LET providedAssets == provideAssets.entries
                w1 == AddProvided(WalkState(NewSet, 0, logFile, debugFile), providedAssets)
                w2 == [w1 EXCEPT !.totalBeforeDedup = w1.totalBeforeDedup + Len(providedAssets),
                                 !.log = Emit(w1.log, "info", "Collected provided assets", "")]
            IN CollectScan(w2)

\* a hook that calls collect and does not await it, as the hook of
\* src/unnamed/part_002 line 39 did
CollectNotAwaited ==
    hookPc \in {"awaitingProvider", "collected", "collectFailed", "done", "downloadFailed"}

\* await assetLoader.collect() has returned (part_003 line 41)
CollectAwaited == hookPc \in {"collected", "done", "downloadFailed"}

\* await assetLoader.download(): the steps of download and of its pool
HookDownload ==
    /\ CollectAwaited
    /\ Next

\* download has returned: the hook writes success.log or error.log,
\* by the errors nuxt hands it
HookWritesLog ==
    /\ hookPc = "collected"
    /\ mainPc = "returned"
    /\ \E errors \in BOOLEAN :
          hookLog' = IF errors THEN "error.log" ELSE "success.log"
    /\ hookPc' = "done"
    /\ UNCHANGED <<downloadVars, resolveVars, extractVars, provideAssets, payloadDir,
                   enableDebugFile, debugFile, filesRead, collectStats, collectError,
                   listBefore, host, assetLoader, consolaWarnings, collectCalls,
                   moduleEntries, handlers, handlersCalled, loadersBuilt>>

\* download has raised: the hook rejects ahead of the log write
HookDownloadRaised ==
    /\ hookPc = "collected"
    /\ mainPc = "raised"
    /\ hookPc' = "downloadFailed"
    /\ UNCHANGED <<downloadVars, resolveVars, extractVars, provideAssets, payloadDir,
                   enableDebugFile, debugFile, filesRead, collectStats, collectError,
                   listBefore, hookLog, host, assetLoader, consolaWarnings,
                   collectCalls, moduleEntries, handlers, handlersCalled,
                   loadersBuilt>>

NextHook ==
    \/ ModuleWithoutHost
    \/ ModuleRegistersHook
    \/ NuxtGenerates
    \/ HookCollectWithoutProvider
    \/ HookCollectCallsProvider
    \/ HookCollectResumes
    \/ HookDownload
    \/ HookWritesLog
    \/ HookDownloadRaised

SpecHook == InitHook /\ [][NextHook]_vars

(* ---------------------------------------------------------------------- *)
(* SpecLoader: collect and download called on one loader by a client that  *)
(* does not wait for one before it calls the other                         *)
(* ---------------------------------------------------------------------- *)
\* the entries of the payload directories of SpecLoader: a payload file, a
\* directory with a payload file of the same content, a payload file that
\* cannot be read
LoaderPool ==
    {File(PayloadFileName, ContentTwo, TRUE),
     Dir(<<"a">>, <<File(PayloadFileName, ContentTwo, TRUE)>>, TRUE),
     File(<<"x", ".", "p", "a", "y", "l", "o", "a", "d", ".", "j", "s">>, ContentOne, FALSE)}

LoaderTrees ==
    {t \in TreesOf(MaxEntries) : \A k \in DOMAIN t.entries : t.entries[k] \in LoaderPool}

\* the providers of SpecLoader: none, and the asynchronous ones
LoaderProviders == {p \in Providers : p.kind # "sync"}

\* a loader built by the module function on which collect has just been
\* called
InitLoader ==
    /\ assetList \in EarlierLists
    /\ concurrentDownloads = 1
    /\ silentFail = TRUE
    /\ logLevel \in LogLevels
    /\ transport = <<>>
    /\ pathError = "ReferenceError: Cannot access 'assetDir' before initialization"
    /\ mainPc = "idle"
    /\ localAssetList = <<>>
    /\ queue = <<>>
    /\ activeCount = 0
    /\ wpc = [i \in 1..Len(assetList) |-> "unborn"]
    /\ results = <<>>
    /\ failedAssets = <<>>
    /\ completedCount = 0
    /\ totalBytesDownloaded = 0
    /\ report = NoReport
    /\ thrown = NoError
    /\ logFile = <<>>
    /\ effects = <<>>
    /\ ResolveIdle
    /\ ExtractIdle
    /\ hookPc = "fired"
    /\ host = Host(TRUE, CdnOrigin)
    /\ assetLoader = TRUE
    /\ consolaWarnings = <<>>
    /\ collectCalls = 1
    /\ moduleEntries = 1
    /\ handlers = 1
    /\ handlersCalled = 1
    /\ loadersBuilt = 1
    /\ provideAssets \in LoaderProviders
    /\ payloadDir \in LoaderTrees
    /\ enableDebugFile \in BOOLEAN
    /\ debugFile = <<>>
    /\ filesRead = <<>>
    /\ collectStats = NoStats
    /\ collectError = "none"
    /\ listBefore = assetList
    /\ hookLog = "none"

\* collect has ended and the client calls it again
CollectCalledAgain ==
    /\ hookPc \in {"collected", "collectFailed"}
    /\ collectCalls < MaxCollects
    /\ collectCalls' = collectCalls + 1
    /\ hookPc' = "fired"
    /\ listBefore' = assetList
    /\ filesRead' = <<>>
    /\ collectStats' = NoStats
    /\ collectError' = "none"
    /\ UNCHANGED <<assetList, concurrentDownloads, silentFail, logLevel, transport,
                   pathError, downloadState, effects, resolveVars, extractVars,
                   provideAssets, payloadDir, enableDebugFile, debugFile, hookLog,
                   host, assetLoader, consolaWarnings, moduleEntries, handlers,
                   handlersCalled, loadersBuilt>>

\* the client calls download, at any time; the steps of download and of its pool
LoaderDownload ==
    /\ assetLoader
    /\ Next

NextLoader ==
    \/ HookCollectWithoutProvider
    \/ HookCollectCallsProvider
    \/ HookCollectResumes
    \/ CollectCalledAgain
    \/ LoaderDownload

SpecLoader == InitLoader /\ [][NextLoader]_vars

(* ---------------------------------------------------------------------- *)
(* SpecModule: the module function called for every entry the build has    *)
(* for the module on one nuxt, then one generate:done event                *)
(* ---------------------------------------------------------------------- *)
\* the providers of SpecModule: none, and one whose promise resolves with an
\* array
ModuleProviders ==
    {p \in Providers : p.kind = "none" \/ (p.kind = "async" /\ p.result = "array")}

\* the process starts: the module has no loader (part_003 line 16), nuxt has
\* no handler, a host is configured
InitModule ==
    /\ assetList = <<>>
    /\ concurrentDownloads = 1
    /\ silentFail = TRUE
    /\ logLevel = 3
    /\ transport = <<>>
    /\ pathError = "ReferenceError: Cannot access 'assetDir' before initialization"
    /\ mainPc = "idle"
    /\ localAssetList = <<>>
    /\ queue = <<>>
    /\ activeCount = 0
    /\ wpc = <<>>
    /\ results = <<>>
    /\ failedAssets = <<>>
    /\ completedCount = 0
    /\ totalBytesDownloaded = 0
    /\ report = NoReport
    /\ thrown = NoError
    /\ logFile = <<>>
    /\ effects = <<>>
    /\ ResolveIdle
    /\ ExtractIdle
    /\ hookPc = "off"
    /\ host = Host(TRUE, CdnOrigin)
    /\ assetLoader = FALSE
    /\ consolaWarnings = <<>>
    /\ collectCalls = 0
    /\ moduleEntries \in 1..MaxModuleCalls
    /\ handlers = 0
    /\ handlersCalled = 0
    /\ loadersBuilt = 0
    /\ provideAssets \in ModuleProviders
    /\ payloadDir = Dir(<<>>, <<>>, TRUE)
    /\ enableDebugFile = FALSE
    /\ debugFile = <<>>
    /\ filesRead = <<>>
    /\ collectStats = NoStats
    /\ collectError = "none"
    /\ listBefore = assetList
    /\ hookLog = "none"

\* the handler the event called has returned and this.nuxt has one more
\* handler of generate:done (part_003 line 40 ran once for each call of the
\* module function): the event calls it, and it calls collect on the one
\* loader of the module. The locals of the download call that returned
\* are gone; the log file and the list of the loader stay.
NextHandlerCalled ==
    /\ hookPc = "done"
    /\ handlersCalled < handlers
    /\ activeCount = 0
    /\ handlersCalled' = handlersCalled + 1
    /\ collectCalls' = collectCalls + 1
    /\ hookPc' = "fired"
    /\ listBefore' = assetList
    /\ filesRead' = <<>>
    /\ collectStats' = NoStats
    /\ collectError' = "none"
    /\ mainPc' = "idle"
    /\ localAssetList' = <<>>
    /\ queue' = <<>>
    /\ wpc' = [i \in DOMAIN assetList |-> "unborn"]
    /\ results' = <<>>
    /\ failedAssets' = <<>>
    /\ completedCount' = 0
    /\ totalBytesDownloaded' = 0
    /\ report' = NoReport
    /\ thrown' = NoError
    /\ UNCHANGED <<assetList, concurrentDownloads, silentFail, logLevel, transport,
                   pathError, activeCount, logFile, effects, resolveVars, extractVars,
                   provideAssets, payloadDir, enableDebugFile, debugFile, hookLog,
                   host, assetLoader, consolaWarnings, moduleEntries, handlers,
                   loadersBuilt>>

NextModule ==
    \/ ModuleRegistersHook
    \/ NuxtGenerates
    \/ HookCollectWithoutProvider
    \/ HookCollectCallsProvider
    \/ HookCollectResumes
    \/ HookDownload
    \/ HookWritesLog
    \/ NextHandlerCalled

SpecModule == InitModule /\ [][NextModule]_vars

TypeOK ==
    /\ mainPc \in {"idle", "awaiting", "returned", "raised"}
    /\ activeCount \in 0..MaxConcurrency
    /\ \A i \in Indexes : wpc[i] \in {"unborn", "queued", "active", "released"}

(* ---------------------------------------------------------------------- *)
(* Vocabulary of the properties                                            *)
(* ---------------------------------------------------------------------- *)
Finished == mainPc \in {"returned", "raised"}

\* the workers that hold a slot of the pool
InFlight == {i \in Indexes : wpc[i] = "active"}

\* the results recorded for a reference
ResultsOf(a) == {k \in DOMAIN results : results[k].asset = a}

Settled(i) == wpc[i] \in {"active", "released"} /\ ResultsOf(assetList[i]) # {}

Occurrences(list, a) == Cardinality({k \in DOMAIN list : list[k] = a})

(* ---------------------------------------------------------------------- *)
(* C1: in every reachable state of a download run with concurrency limit   *)
(* k >= 1, at most k workers have been started and still hold their slot,  *)
(* and p-limit's activeCount is exactly that number.                       *)
(* ---------------------------------------------------------------------- *)
C1_ConcurrencyCeiling ==
    /\ Cardinality(InFlight) <= concurrentDownloads
    /\ activeCount = Cardinality(InFlight)

\* the pool is full while a worker still waits in the queue
C1_Witness ==
    /\ Cardinality(InFlight) = concurrentDownloads
    /\ queue # <<>>

(* ---------------------------------------------------------------------- *)
(* C2: failure isolation. Whatever failures have been recorded, every      *)
(* other asset of the list is still waiting in the queue to be started or  *)
(* has been started and has its own single outcome; none is dropped, and   *)
(* when the run finishes every asset has been started.                     *)
(* ---------------------------------------------------------------------- *)
C2_FailureIsolation ==
    mainPc # "idle" =>
        /\ \A i \in Indexes :
              \/ wpc[i] = "queued" /\ Occurrences(queue, i) = 1
              \/ Settled(i) /\ Occurrences(queue, i) = 0
        /\ Finished => \A i \in Indexes : Settled(i)

\* after a first worker failed, a sibling was started and reached its outcome
C2_Witness ==
    /\ Len(assetList) >= 2
    /\ Len(failedAssets) >= 2
    /\ \E i \in Indexes : wpc[i] = "queued"

(* ---------------------------------------------------------------------- *)
(* C3: when download finishes on a non-empty list there is exactly one     *)
(* outcome record per asset, and succeeded + failed = total = the number   *)
(* of assets.                                                              *)
(* ---------------------------------------------------------------------- *)
C3_OneOutcomePerAsset ==
    (Finished /\ Len(assetList) > 0) =>
        /\ \A i \in Indexes : Cardinality(ResultsOf(assetList[i])) = 1
        /\ Len(results) = Len(assetList)
        /\ \A k \in DOMAIN results : results[k].success \in BOOLEAN
        /\ report.total = Len(assetList)
        /\ report.succeeded + report.failed = report.total

C3_Witness ==
    /\ Finished
    /\ Len(assetList) = MaxAssets
    /\ report.succeeded + report.failed = MaxAssets

(* ---------------------------------------------------------------------- *)
(* C4: join barrier. The summary counts exist, and the call has returned   *)
(* or raised, only when every worker has settled.                          *)
(* ---------------------------------------------------------------------- *)
C4_JoinBarrier ==
    (Finished \/ report # NoReport \/ thrown # NoError) =>
        \A i \in Indexes : Settled(i)

\* the summary of a run whose workers were not all admitted at once
C4_Witness ==
    /\ report # NoReport
    /\ Len(assetList) > concurrentDownloads
    /\ \A i \in Indexes : Settled(i)

(* ---------------------------------------------------------------------- *)
(* C5: in lenient mode (silentFail) download never raises, whatever the    *)
(* number of failed assets, and returns only after all workers settled.    *)
(* ---------------------------------------------------------------------- *)
C5_LenientNeverRaises ==
    silentFail =>
        /\ mainPc # "raised"
        /\ thrown = NoError
        /\ mainPc = "returned" => \A i \in Indexes : Settled(i)

\* a lenient run in which every asset failed has returned
C5_Witness ==
    /\ silentFail
    /\ mainPc = "returned"
    /\ Len(assetList) >= 2
    /\ report.failed = Len(assetList)

(* ---------------------------------------------------------------------- *)
(* C6 as stated: in strict mode download raises if and only if at least    *)
(* one asset failed, and the raised error carries the list of failed       *)
(* references.                                                             *)
(* ---------------------------------------------------------------------- *)
C6_StrictRaiseCarriesList ==
    ~silentFail =>
        /\ Finished => (mainPc = "raised" <=> Len(failedAssets) > 0)
        /\ mainPc = "raised" =>
              /\ "failedReferences" \in DOMAIN thrown
              /\ thrown.failedReferences = failedAssets

(* ---------------------------------------------------------------------- *)
(* C6 amended: in strict mode download raises if and only if at least one  *)
(* asset failed; the raised error carries the failed count and the total   *)
(* (in its message) and no list; when the log level admits errors, the     *)
(* failed references have been appended to the log, one error line each,   *)
(* before the raise.                                                       *)
(* ---------------------------------------------------------------------- *)
C6_StrictRaiseCarriesCounts ==
    ~silentFail =>
        /\ Finished => (mainPc = "raised" <=> Len(failedAssets) > 0)
        /\ mainPc = "raised" =>
              /\ thrown = [name |-> "Error", failed |-> Len(failedAssets),
                           total |-> Len(assetList)]
              /\ \A k \in DOMAIN failedAssets :
                    logLevel >= LevelOf("error") =>
                    \E l \in DOMAIN logFile :
                        logFile[l] = Line("error", "failed asset", failedAssets[k])
        /\ mainPc # "raised" => thrown = NoError

C6_Witness ==
    /\ ~silentFail
    /\ mainPc = "raised"
    /\ Len(failedAssets) >= 2

(* ---------------------------------------------------------------------- *)
(* C7 as stated: download on an empty list returns a report whose counts   *)
(* are all zero and performs no I/O: no fetch, no directory, no file       *)
(* written or appended.                                                    *)
(* ---------------------------------------------------------------------- *)
C7_EmptyZeroReportNoIO ==
    (Len(assetList) = 0 /\ Finished) =>
        /\ report = [total |-> 0, succeeded |-> 0, failed |-> 0, totalBytes |-> 0]
        /\ effects = <<>>
        /\ logFile = <<>>

(* ---------------------------------------------------------------------- *)
(* C7 amended: download on an empty list returns at once without raising,  *)
(* computes no report, starts no worker, issues no fetch, creates no       *)
(* directory and writes no asset file; its one I/O is the warning "No      *)
(* assets to download", appended to the log file when the log level        *)
(* admits warnings.                                                        *)
(* ---------------------------------------------------------------------- *)
C7_EmptyOnlyWarns ==
    (Len(assetList) = 0 /\ mainPc # "idle") =>
        /\ mainPc = "returned"
        /\ report = NoReport
        /\ thrown = NoError
        /\ results = <<>>
        /\ effects = <<>>
        /\ logFile = IF logLevel >= LevelOf("warn")
                     THEN <<Line("warn", "No assets to download", "")>>
                     ELSE <<>>

C7_Witness ==
    /\ Len(assetList) = 0
    /\ mainPc = "returned"
    /\ Len(logFile) = 1

C9_RetriedSuccessRecorded ==
    Finished =>
        \A i \in Indexes :
            transport[i].failures = RetryCount =>
                /\ \A k \in ResultsOf(assetList[i]) :
                      results[k].success /\ results[k].size = transport[i].bytes
                /\ ResultsOf(assetList[i]) # {}
                /\ Occurrences(failedAssets, assetList[i]) = 0

(* ---------------------------------------------------------------------- *)
(* Vocabulary of the properties of SpecResolve                             *)
(* ---------------------------------------------------------------------- *)
\* the positions at which the mark :// begins
SchemeMarks(a) == {i \in 1..(Len(a) - 2) : SubSeq(a, i, i + 2) = <<":", "/", "/">>}

\* a reference of the form scheme://... whose scheme is http or https
RecognisedAbsolute(a) ==
    /\ SchemeMarks(a) # {}
    /\ SubSeq(a, 1, Min(SchemeMarks(a)) - 1) \in {<<"h", "t", "t", "p">>, <<"h", "t", "t", "p", "s">>}

\* the path of an absolute URL: what follows the first slash after the host
PathAfterHost(a) ==
    LET rest == From(a, Min(SchemeMarks(a)) + 3)
    IN IF PositionsOf(rest, "/") = {} THEN <<>>
       ELSE From(rest, Min(PositionsOf(rest, "/")) + 1)

\* the destination file the documentation gives a reference
ClaimedDestination(dest, a) ==
    dest \o <<"/">> \o (IF RecognisedAbsolute(a) THEN PathAfterHost(a)
                        ELSE IF a # <<>> /\ a[1] = "/" THEN Tail(a) ELSE a)

(* ---------------------------------------------------------------------- *)
(* C11: the request URL a worker computes is the reference itself, with    *)
(* nothing put before it, when the reference is an absolute URL of a       *)
(* recognised scheme (http or https), and the configured origin followed   *)
(* by the reference otherwise.                                             *)
(* ---------------------------------------------------------------------- *)
C11_RequestURL ==
    resolved.ran =>
        /\ RecognisedAbsolute(assetRef) => resolved.requestURL = assetRef
        /\ ~RecognisedAbsolute(assetRef) => resolved.requestURL = api \o assetRef

\* an https URL on a host other than the configured origin, with a path
C11_Witness ==
    /\ resolved.ran
    /\ RecognisedAbsolute(assetRef)
    /\ ~StartsWith(assetRef, api)
    /\ PathAfterHost(assetRef) # <<>>
    /\ resolved.requestURL = assetRef

(* ---------------------------------------------------------------------- *)
(* C12: for every reference the worker has a destination file: the         *)
(* destination root followed by the path of the reference, scheme and host *)
(* stripped for an absolute URL, the leading slash stripped for a relative *)
(* reference.                                                              *)
(* ---------------------------------------------------------------------- *)
C12_DestinationFile ==
    resolved.ran =>
        /\ resolved.hasFilePath
        /\ resolved.assetFilePath = ClaimedDestination(assetDestination, assetRef)

(* ---------------------------------------------------------------------- *)
(* C13: end to end. With the asset list /assets/img/a.png, /imager/x/b.jpg,*)
(* the origin https://cdn.example, concurrency 2 and a transport that      *)
(* answers every first attempt, the finished run has written the two files *)
(* under the destination and reports total 2, succeeded 2, failed 0.       *)
(* ---------------------------------------------------------------------- *)
C13_EndToEnd ==
    ( /\ Finished
      /\ assetList = <<"/assets/img/a.png", "/imager/x/b.jpg">>
      /\ api = CdnOrigin
      /\ concurrentDownloads = 2
      /\ \A i \in Indexes : transport[i].failures = 0 ) =>
        /\ report.total = 2
        /\ report.succeeded = 2
        /\ report.failed = 0
        /\ {[op |-> "write", path |-> "dist/img/a.png"],
            [op |-> "write", path |-> "dist/x/b.jpg"]}
              \subseteq {effects[k] : k \in DOMAIN effects}

(* ---------------------------------------------------------------------- *)
(* Vocabulary of the properties of SpecExtract                             *)
(* ---------------------------------------------------------------------- *)
\* the positions at which /assets/ or /imager/ begins
Occurrences17(t) ==
    {p \in 1..Len(t) : StartsWith(From(t, p), Assets) \/ StartsWith(From(t, p), Imager)}

\* the double quotes behind the word of the occurrence at p
QuotesAfter(t, p) == {q \in PositionsOf(t, "\"") : q >= p + Len(Assets)}

\* every occurrence is well formed and quote-terminated: at least one
\* character stands between its word and the double quote that ends it,
\* and no other occurrence begins before that quote
WellFormedText(t) ==
    \A p \in Occurrences17(t) :
        /\ QuotesAfter(t, p) # {}
        /\ Min(QuotesAfter(t, p)) > p + Len(Assets)
        /\ \A p2 \in Occurrences17(t) : p2 > p => p2 > Min(QuotesAfter(t, p))

RECURSIVE Ascending(_)
Ascending(S) == IF S = {} THEN <<>> ELSE <<Min(S)>> \o Ascending(S \ {Min(S)})

\* the occurrences in text order, each from its leading slash up to, not
\* including, its terminating quote
QuotedOccurrences(t) ==
    LET starts == Ascending(Occurrences17(t))
    IN [k \in DOMAIN starts |->
          SubSeq(t, starts[k], Min(QuotesAfter(t, starts[k])) - 1)]

(* ---------------------------------------------------------------------- *)
(* C17 as stated: for a text of N well-formed, quote-terminated            *)
(* occurrences, extractAssetPathsFromPayload returns exactly N references, *)
(* each equal to its occurrence from the leading slash up to, not          *)
(* including, the terminating quote.                                       *)
(* ---------------------------------------------------------------------- *)
C17_ExtractsOccurrences ==
    (extractDone /\ WellFormedText(payloadString)) =>
        extractedPaths = QuotedOccurrences(payloadString)

(* ---------------------------------------------------------------------- *)
(* C17 amended: ... returns exactly N references, in text order, each      *)
(* equal to its occurrence from the leading slash up to, not including,    *)
(* the terminating quote, with every comma of the occurrence removed.      *)
(* ---------------------------------------------------------------------- *)
C17_ExtractsOccurrencesSansCommas ==
    (extractDone /\ WellFormedText(payloadString)) =>
        /\ Len(extractedPaths) = Cardinality(Occurrences17(payloadString))
        /\ \A k \in DOMAIN extractedPaths :
              extractedPaths[k] =
                  RemoveAll(QuotedOccurrences(payloadString)[k], ",")

\* two occurrences, one of them with a comma in its path
C17_Witness ==
    /\ extractDone
    /\ WellFormedText(payloadString)
    /\ Len(extractedPaths) = 2
    /\ \E k \in DOMAIN extractedPaths :
          extractedPaths[k] # QuotedOccurrences(payloadString)[k]
(* ---------------------------------------------------------------------- *)
(* Vocabulary of the properties of collect and of the hook                 *)
(* ---------------------------------------------------------------------- *)
Members(list) == {list[k] : k \in DOMAIN list}

\* collect has returned
CollectSucceeded == hookPc \in {"collected", "done", "downloadFailed"}

\* collect has returned or raised
CollectEnded == hookPc \in {"collected", "done", "downloadFailed", "collectFailed"}

\* a name that is the suffix, or something and then the suffix
HasSuffix(name) ==
    \E k \in 0..Len(name) : SubSeq(name, k + 1, Len(name)) = PayloadFileName

\* a file the walk is to read
IsPayloadFile(e) == e.kind = "file" /\ HasSuffix(e.name)

\* the references written in a payload file
WrittenIn(e) == ExtractAssetPathsFromPayload(UnescapeSlashes(e.content))

\* the entries of a directory at any depth
RECURSIVE Below(_)
Below(dir) ==
    UNION {{dir.entries[k]} \cup
           (IF dir.entries[k].kind = "dir" THEN Below(dir.entries[k]) ELSE {}) :
           k \in DOMAIN dir.entries}

\* the references of all payload files, file by file in directory order
RECURSIVE RefsInOrder(_)
RefsInOrder(entries) ==
    IF entries = <<>> THEN <<>>
    ELSE LET e == Head(entries)
             here == IF e.kind = "dir" THEN RefsInOrder(e.entries)
                     ELSE IF IsPayloadFile(e) THEN WrittenIn(e)
                     ELSE <<>>
         IN here \o RefsInOrder(Tail(entries))

\* the paths of all payload files
RECURSIVE PayloadPaths(_, _)
PayloadPaths(dir, path) ==
    UNION {LET e == dir.entries[k]
               p == path \o <<"/">> \o e.name
           IN IF e.kind = "dir" THEN PayloadPaths(e, p)
              ELSE IF IsPayloadFile(e) THEN {p}
              ELSE {} :
           k \in DOMAIN dir.entries}

\* the root, a subdirectory or a payload file cannot be read
SomethingUnreadable ==
    \/ ~payloadDir.ok
    \/ \E e \in Below(payloadDir) : ~e.ok /\ (e.kind = "dir" \/ IsPayloadFile(e))

\* the provider is a function whose call throws, rejects or yields no array
ProviderFails == provideAssets.kind # "none" /\ provideAssets.result # "array"

\* the entries of the array the provider returns
Provided == provideAssets.entries

ProvidedStrings == SelectSeq(Provided, LAMBDA e : e.isString)

StringValues == {ProvidedStrings[k].value : k \in DOMAIN ProvidedStrings}

NonStringValues == {Provided[k].value : k \in {j \in DOMAIN Provided : ~Provided[j].isString}}

\* a sequence without the repetitions of its members
RECURSIVE FirstOccurrences(_)
FirstOccurrences(list) ==
    IF list = <<>> THEN <<>>
    ELSE LET front == FirstOccurrences(Front(list))
             last == list[Len(list)]
         IN IF last \in Members(front) THEN front ELSE Append(front, last)

(* ---------------------------------------------------------------------- *)
(* C15: after a successful collect the asset list holds exactly the string *)
(* entries the provider returned and the references extracted from every   *)
(* payload file of the tree, and no string twice.                          *)
(* ---------------------------------------------------------------------- *)
C15_ListIsUnion ==
    CollectSucceeded =>
        /\ Members(assetList) = StringValues \cup Members(RefsInOrder(payloadDir.entries))
        /\ \A i, j \in DOMAIN assetList : assetList[i] = assetList[j] => i = j

\* a reference the provider returned is also written in a payload file, and
\* the list that was replaced held something else
C15_Witness ==
    /\ CollectSucceeded
    /\ StringValues \cap Members(RefsInOrder(payloadDir.entries)) # {}
    /\ Len(assetList) >= 3
    /\ listBefore # <<>>

(* ---------------------------------------------------------------------- *)
(* C16: total-before-dedup is the number of references collected (the      *)
(* provider's references plus the extracted ones), and duplicates-removed  *)
(* is that total minus the number of unique references, so it counts only  *)
(* references dropped for being equal to one already collected, whatever   *)
(* the provider returned.                                                  *)
(* ---------------------------------------------------------------------- *)
C16_Statistics ==
    CollectSucceeded =>
        LET collected == ProvidedStrings \o
                         [k \in DOMAIN RefsInOrder(payloadDir.entries) |->
                             Entry(TRUE, RefsInOrder(payloadDir.entries)[k])]
            dropped == Len(collected) - Cardinality({collected[k].value : k \in DOMAIN collected})
        IN /\ collectStats.totalBeforeDedup = Len(collected)
           /\ collectStats.duplicatesRemoved =
                  collectStats.totalBeforeDedup - collectStats.unique
           /\ collectStats.duplicatesRemoved = dropped

(* ---------------------------------------------------------------------- *)
(* C18: when the provider throws, rejects or returns no array, collect     *)
(* never returns: it ends raised, no payload file has been read, the asset *)
(* list is the one the hook found, and download has not been called.       *)
(* ---------------------------------------------------------------------- *)
C18_ProviderFailureAborts ==
    ProviderFails =>
        /\ filesRead = <<>>
        /\ assetList = listBefore
        /\ mainPc = "idle"
        /\ results = <<>>
        /\ CollectEnded => hookPc = "collectFailed" /\ collectError # "none"

\* an asynchronous provider resolved with something that is no array, while
\* there was a payload file to read and an earlier list to keep
C18_Witness ==
    /\ hookPc = "collectFailed"
    /\ provideAssets.kind = "async"
    /\ provideAssets.result = "other"
    /\ PayloadPaths(payloadDir, Dist) # {}
    /\ ~SomethingUnreadable
    /\ listBefore # <<>>

(* ---------------------------------------------------------------------- *)
(* C19: when the provider returns an array with non-string entries and the *)
(* tree is readable, collect returns: no non-string entry is in the asset  *)
(* list, every string entry is, every payload file has been read, and the  *)
(* list is the same for a synchronous and an asynchronous provider: the    *)
(* strings of the array, then the references of the files, first           *)
(* occurrences only.                                                       *)
(* ---------------------------------------------------------------------- *)
C19_NonStringsSkipped ==
    (/\ provideAssets.kind # "none"
     /\ provideAssets.result = "array"
     /\ NonStringValues # {}
     /\ ~SomethingUnreadable
     /\ CollectEnded) =>
        /\ CollectSucceeded
        /\ NonStringValues \cap Members(assetList) = {}
        /\ StringValues \subseteq Members(assetList)
        /\ Members(filesRead) = PayloadPaths(payloadDir, Dist)
        /\ assetList =
              FirstOccurrences([k \in DOMAIN ProvidedStrings |-> ProvidedStrings[k].value]
                               \o RefsInOrder(payloadDir.entries))

\* a synchronous provider returned strings and a number, and payload files
\* were read after it
C19_Witness ==
    /\ CollectSucceeded
    /\ provideAssets.kind = "sync"
    /\ NonStringValues # {}
    /\ StringValues # {}
    /\ filesRead # <<>>

(* ---------------------------------------------------------------------- *)
(* C20: when the root, a subdirectory or a payload file cannot be read     *)
(* (and the provider did not fail first), collect ends raised: the asset   *)
(* list is the one the hook found, no statistics are published, and        *)
(* download has not been called.                                           *)
(* ---------------------------------------------------------------------- *)
C20_ReadFailureAborts ==
    (SomethingUnreadable /\ ~ProviderFails) =>
        /\ assetList = listBefore
        /\ collectStats = NoStats
        /\ mainPc = "idle"
        /\ results = <<>>
        /\ CollectEnded => hookPc = "collectFailed" /\ collectError = "read error"

\* the walk had read a payload file with references in it when it met what
\* it could not read
C20_Witness ==
    /\ hookPc = "collectFailed"
    /\ collectError = "read error"
    /\ filesRead # <<>>
    /\ StringValues # {}
    /\ listBefore # <<>>
(* ---------------------------------------------------------------------- *)
(* C26: workers are admitted in the order of the asset list: a worker has  *)
(* started only if every worker of an earlier position has started, and   *)
(* the outcomes, each recorded by its worker as it starts, follow the      *)
(* list; the order in which slots are given back is free.                  *)
(* ---------------------------------------------------------------------- *)
C26_AdmittedInListOrder ==
    /\ \A i, j \in DOMAIN wpc :
          (i < j /\ wpc[j] \in {"active", "released"})
              => wpc[i] \in {"active", "released"}
    /\ \A k \in DOMAIN results : results[k].asset = localAssetList[k]

\* the second worker has given its slot back to the third while the first
\* still holds its own
C26_Witness ==
    /\ Len(localAssetList) >= 3
    /\ wpc[1] = "active"
    /\ wpc[2] = "released"
    /\ wpc[3] \in {"active", "released"}

(* ---------------------------------------------------------------------- *)
(* C27: under the fairness of the event loop every download call comes to  *)
(* its end and stays there with every worker admitted, every slot given    *)
(* back and the in-flight count at zero.                                   *)
(* ---------------------------------------------------------------------- *)
C27_DownloadCompletes ==
    <>[](/\ Finished
         /\ queue = <<>>
         /\ activeCount = 0
         /\ \A i \in DOMAIN wpc : wpc[i] = "released")

\* a finished call of three assets whose slots are all given back
C27_Witness ==
    /\ Finished
    /\ Len(results) >= 3
    /\ activeCount = 0
    /\ \A i \in DOMAIN wpc : wpc[i] = "released"

(* ---------------------------------------------------------------------- *)
(* C29: when a download run has finished, the failed-reference list holds  *)
(* each reference as often as it has a failed outcome (once), its length   *)
(* is the failed count of the report, and no reference with a successful   *)
(* outcome is in it, whatever the order of the workers' steps.             *)
(* ---------------------------------------------------------------------- *)
C29_FailedListExact ==
    (Finished /\ report # NoReport) =>
        /\ Len(failedAssets) = report.failed
        /\ \A i \in DOMAIN localAssetList :
              Occurrences(failedAssets, localAssetList[i]) =
                  Cardinality({k \in DOMAIN results :
                                  results[k].asset = localAssetList[i] /\ ~results[k].success})
        /\ \A k \in DOMAIN failedAssets :
              /\ \E i \in DOMAIN localAssetList : failedAssets[k] = localAssetList[i]
              /\ \A r \in DOMAIN results :
                    results[r].asset = failedAssets[k] => ~results[r].success

\* three failures recorded by workers that shared two slots
C29_Witness ==
    /\ Finished
    /\ concurrentDownloads < Len(localAssetList)
    /\ Len(failedAssets) = 3
    /\ report.failed = 3
(* ---------------------------------------------------------------------- *)
(* C23: within one generate:done handling download starts, and so sends    *)
(* its first request, only after collect has returned: the provider has    *)
(* resolved and every payload file has been read, once, and none is read   *)
(* after that.                                                             *)
(* ---------------------------------------------------------------------- *)
C23_CollectThenDownload ==
    (mainPc # "idle" \/ results # <<>>) =>
        /\ CollectSucceeded
        /\ Members(filesRead) = PayloadPaths(payloadDir, Dist)
        /\ Len(filesRead) = Cardinality(PayloadPaths(payloadDir, Dist))

\* a worker of download has run after an asynchronous provider resolved and
\* payload files were read
C23_Witness ==
    /\ results # <<>>
    /\ provideAssets.kind = "async"
    /\ filesRead # <<>>

(* ---------------------------------------------------------------------- *)
(* C25: a collect that returns has read every file, at any depth, whose    *)
(* name ends with the suffix exactly once and no other file; a directory   *)
(* is walked, never read as a file, also when its own name ends with the   *)
(* suffix.                                                                 *)
(* ---------------------------------------------------------------------- *)
C25_WalkReadsBySuffix ==
    CollectSucceeded =>
        /\ Members(filesRead) = PayloadPaths(payloadDir, Dist)
        /\ \A i, j \in DOMAIN filesRead : filesRead[i] = filesRead[j] => i = j
        /\ \A k \in DOMAIN payloadDir.entries :
              LET sub == payloadDir.entries[k]
                  subPath == Dist \o <<"/">> \o sub.name
              IN (sub.kind = "dir" /\ HasSuffix(sub.name)) =>
                    /\ subPath \notin Members(filesRead)
                    /\ \A f \in DOMAIN sub.entries :
                          IsPayloadFile(sub.entries[f]) =>
                             subPath \o <<"/">> \o sub.entries[f].name \in Members(filesRead)

\* a directory named like a payload file, with a payload file in it, next to
\* a file whose name holds the suffix but does not end with it
C25_Witness ==
    /\ CollectSucceeded
    /\ filesRead # <<>>
    /\ \E e \in Below(payloadDir) : e.kind = "dir" /\ HasSuffix(e.name)
    /\ \E e \in Below(payloadDir) :
          e.kind = "file" /\ ~HasSuffix(e.name) /\ Includes(e.name, PayloadFileName)

(* ---------------------------------------------------------------------- *)
(* C30: when the host is absent or the empty string, the module function   *)
(* warns and returns: it builds no loader, registers no hook, and nothing  *)
(* is collected, downloaded, written or requested.                         *)
(* ---------------------------------------------------------------------- *)
C30_NoHostWarnsAndReturns ==
    ((~host.defined \/ host.text = <<>>) /\ hookPc # "off") =>
        /\ hookPc = "skipped"
        /\ consolaWarnings = <<"No API configured">>
        /\ assetLoader = (listBefore # <<>>)
        /\ mainPc = "idle"
        /\ filesRead = <<>>
        /\ effects = <<>>
        /\ logFile = <<>>
        /\ debugFile = <<>>
(* ---------------------------------------------------------------------- *)
(* C21 as stated: collect writes nothing: while download has not been      *)
(* called, nothing has been written to the log file or the debug file and  *)
(* nothing has been created or requested.                                  *)
(* ---------------------------------------------------------------------- *)
C21_CollectWritesNothing ==
    mainPc = "idle" => (logFile = <<>> /\ debugFile = <<>> /\ effects = <<>>)

\* a step of collect
CollectStep == hookPc \in {"fired", "awaitingProvider"} /\ hookPc' # hookPc

(* ---------------------------------------------------------------------- *)
(* C21 amended: a step of collect sends no request, creates no directory,  *)
(* writes no asset and leaves the payload tree as it is; it writes to the  *)
(* debug file only with enableDebugFile, and to the log file only lines    *)
(* that the log level lets through (none when the level is below 0).       *)
(* ---------------------------------------------------------------------- *)
C21_CollectWritesOnlyItsLogs ==
    [][CollectStep =>
          /\ effects' = effects
          /\ payloadDir' = payloadDir
          /\ (~enableDebugFile => debugFile' = debugFile)
          /\ (logLevel < 0 => logFile' = logFile)
          /\ \A k \in DOMAIN logFile' : LevelOf(logFile'[k].type) <= logLevel]_vars

\* a collect that read a payload file and wrote to both of its files, while
\* download had not been called
C21_Witness ==
    /\ hookPc = "collected"
    /\ mainPc = "idle"
    /\ filesRead # <<>>
    /\ enableDebugFile
    /\ Len(debugFile) > 1
    /\ logFile # <<>>

(* ---------------------------------------------------------------------- *)
(* C22: deduplication is idempotent: a second collect on the same loader   *)
(* over the unchanged tree yields the list and the unique count of the     *)
(* first, and two payload files of equal content count as one: the unique  *)
(* count is the number of different strings among the provider's strings   *)
(* and the references of the different file contents.                      *)
(* ---------------------------------------------------------------------- *)
C22_DedupIdempotent ==
    hookPc = "collected" =>
        LET contents == {e.content : e \in {f \in Below(payloadDir) : IsPayloadFile(f)}}
            refs == UNION {Members(ExtractAssetPathsFromPayload(UnescapeSlashes(c))) :
                           c \in contents}
        IN /\ collectStats.unique = Cardinality(StringValues \cup refs)
           /\ Members(assetList) = StringValues \cup refs
           /\ collectCalls >= 2 =>
                 /\ assetList = listBefore
                 /\ collectStats.unique = Len(listBefore)

\* the second collect has returned over a tree with two payload files of the
\* same content
C22_Witness ==
    /\ hookPc = "collected"
    /\ collectCalls = 2
    /\ Cardinality(PayloadPaths(payloadDir, Dist)) = 2
    /\ Cardinality({e.content : e \in {f \in Below(payloadDir) : IsPayloadFile(f)}}) = 1
    /\ collectStats.unique = 2
    /\ collectStats.totalBeforeDedup >= 4

(* ---------------------------------------------------------------------- *)
(* C24: the assets of a download run are fixed at its start: no step       *)
(* of download changes this.assetList, no step at all changes the list a   *)
(* running download took, and the outcomes, the failed list and the total  *)
(* of the report are those of the list it took, also when a collect        *)
(* replaces this.assetList meanwhile.                                      *)
(* ---------------------------------------------------------------------- *)
C24_RunListFixed ==
    /\ [][(mainPc # "idle" => localAssetList' = localAssetList)
          /\ ((mainPc' # mainPc \/ results' # results) => assetList' = assetList)]_vars
    /\ [](/\ \A k \in DOMAIN results : results[k].asset = localAssetList[k]
          /\ \A k \in DOMAIN failedAssets :
                \E i \in DOMAIN localAssetList : failedAssets[k] = localAssetList[i]
          /\ (Finished /\ report # NoReport) => report.total = Len(localAssetList))

\* a collect has replaced this.assetList while download was waiting for its
\* workers, and a worker has run after that
C24_Witness ==
    /\ mainPc = "awaiting"
    /\ hookPc = "collected"
    /\ localAssetList # <<>>
    /\ assetList # <<>>
    /\ assetList # localAssetList
    /\ results # <<>>

(* ---------------------------------------------------------------------- *)
(* C31: the single-instance guard                                          *)
(* ---------------------------------------------------------------------- *)
\* the runs of the collect-then-download pipeline the event has started
PipelineRuns == collectCalls

\* C31: however many times the module function is called, at most one
\* AssetLoader is constructed and the one generate:done event runs the
\* collect-then-download pipeline at most once
C31_GuardPreventsReentry ==
    /\ loadersBuilt <= 1
    /\ handlersCalled <= 1
    /\ PipelineRuns <= 1

====
